---- MODULE Spec2Model ----
(***************************************************************************)
(* A model of src/main.py: the multi-persona code review tool.             *)
(*                                                                         *)
(* Text (templates, code payloads, prompts, review bodies, the report) is  *)
(* a sequence of tokens.  The tokens "{" and "}" are the brace characters, *)
(* "code_diff" is the identifier text code_diff, " " is whitespace and     *)
(* every other token is a run of ordinary characters.  Persona names and   *)
(* focus labels are atomic strings.                                        *)
(*                                                                         *)
(* Progress messages (the "Starting review", "Running ... review",         *)
(* "Reading file" lines and the --quiet flag that silences some of them)   *)
(* change no state the program reads and are left out of the console log.  *)
(***************************************************************************)
EXTENDS Integers, Sequences, FiniteSets, TLC

VARIABLES pc, args, config, personas, code_content, personas_to_run, idx,
          reviews, report, out, calls, saved, exc, metaFailed, dispatched

vars == <<pc, args, config, personas, code_content, personas_to_run, idx,
          reviews, report, out, calls, saved, exc, metaFailed, dispatched>>

-----------------------------------------------------------------------------
(* Bounds *)

\* longest --personas list that is enumerated
MaxSel == 2
\* longest template enumerated for a directly constructed persona
MaxTplLen == 5
\* longest code payload enumerated for a directly constructed persona
MaxCodeLen == 3

-----------------------------------------------------------------------------
(* Text *)

Tok == {"{", "}", "code_diff", "x"}

RECURSIVE StringsUpTo(_)
StringsUpTo(n) ==
  IF n = 0 THEN {<<>>}
  ELSE LET shorter == StringsUpTo(n - 1)
       IN  shorter \cup {Append(s, c) : s \in {z \in shorter : Len(z) = n - 1}, c \in Tok}

\* str.strip(): leading and trailing whitespace removed
RECURSIVE Strip(_)
Strip(s) ==
  IF s = <<>> THEN s
  ELSE IF Head(s) = " " THEN Strip(Tail(s))
  ELSE IF s[Len(s)] = " " THEN Strip(SubSeq(s, 1, Len(s) - 1))
  ELSE s

\* str.lower() on the names the model uses
Lower(n) ==
  CASE n = "Code Quality Specialist" -> "code quality specialist"
    [] n = "CODE QUALITY SPECIALIST" -> "code quality specialist"
    [] n = "Bug Hunter"              -> "bug hunter"
    [] n = "BUG HUNTER"              -> "bug hunter"
    [] n = "Custom Persona"          -> "custom persona"
    [] OTHER                         -> n

Returned(text) == [raised |-> FALSE, exc |-> "none", text |-> text]

Raised(e) == [raised |-> TRUE, exc |-> e, text |-> <<>>]

\* the literal text r is preceded by: an exception further right still propagates
Emit(text, r) == IF r.raised THEN r ELSE Returned(text \o r.text)

\* index of the "}" that closes a replacement field opened before position i, or
\* 0 when the text ends or another "{" comes first
RECURSIVE FieldEnd(_, _)
FieldEnd(t, i) ==
  IF i > Len(t) THEN 0
  ELSE IF t[i] = "}" THEN i
  ELSE IF t[i] = "{" THEN 0
  ELSE FieldEnd(t, i + 1)

\* str.format(code_diff=code) from position i of template t, left to right:
\* "{{" and "}}" are escapes, "{name}" is a replacement field; the only keyword
\* is code_diff and there are no positional arguments
RECURSIVE FormatFrom(_, _, _)
FormatFrom(t, i, code) ==
  IF i > Len(t) THEN Returned(<<>>)
  ELSE IF t[i] = "{" THEN
    IF i = Len(t) THEN Raised("ValueError")
    ELSE IF t[i + 1] = "{" THEN Emit(<<"{">>, FormatFrom(t, i + 2, code))
    ELSE LET j == FieldEnd(t, i + 1)
         IN  IF j = 0 THEN Raised("ValueError")
             ELSE IF j = i + 1 THEN Raised("IndexError")
             ELSE IF SubSeq(t, i + 1, j - 1) = <<"code_diff">>
                  THEN Emit(code, FormatFrom(t, j + 1, code))
             ELSE Raised("KeyError")
  ELSE IF t[i] = "}" THEN
    IF i < Len(t) /\ t[i + 1] = "}" THEN Emit(<<"}">>, FormatFrom(t, i + 2, code))
    ELSE Raised("ValueError")
  ELSE Emit(<<t[i]>>, FormatFrom(t, i + 1, code))

\* a format that scans the substituted payload again
Format_Rescan(template, code_diff) ==
  LET r == FormatFrom(template, 1, code_diff)
  IN  IF r.raised THEN r ELSE FormatFrom(r.text, 1, code_diff)

\* self.prompt_template.format(code_diff=code_diff)
Format(template, code_diff) == FormatFrom(template, 1, code_diff)

-----------------------------------------------------------------------------
(* Inputs and the external collaborators *)

RECURSIVE SeqsUpTo(_, _)
SeqsUpTo(S, n) ==
  IF n = 0 THEN {<<>>}
  ELSE LET shorter == SeqsUpTo(S, n - 1)
       IN  shorter \cup {Append(s, c) : s \in {z \in shorter : Len(z) = n - 1}, c \in S}

\* names a user may pass to --personas
SelNames == {"bug hunter", "CODE QUALITY SPECIALIST", "Custom Persona", "nonexistent"}

\* --personas: absent (None), or a list of zero or more names (nargs='*')
Selections ==
  {[given |-> FALSE, names |-> <<>>]}
    \cup {[given |-> TRUE, names |-> s] : s \in SeqsUpTo(SelNames, MaxSel)}

\* --name: the default, or a name of the user's choosing
DynNames == {"Custom Persona", "BUG HUNTER"}

\* --description: "" stands for an absent or empty description (both falsy)
Descriptions == {"", "focuses on accessibility"}

\* GOOGLE_API_KEY in the environment: "" stands for unset or empty
ApiKeys == {"", "key"}

\* the endpoint's answers to the meta-prompt; ok = FALSE is any endpoint error
MetaResponses ==
  { [ok |-> TRUE,  text |-> <<" ", "Review for a11y: ", "{", "code_diff", "}", " ">>],
    [ok |-> TRUE,  text |-> <<"Focus areas", "x">>],
    [ok |-> TRUE,  text |-> <<"Example: ", "{", "x", "}">>],
    [ok |-> FALSE, text |-> <<>>] }

\* the endpoint's answers to a review prompt
ReviewResponses ==
  { [ok |-> TRUE,  text |-> <<"LGTM">>],
    [ok |-> FALSE, text |-> <<"quota exceeded">>] }

\* what reading --file gives: its content, or None after an error
FileOutcomes ==
  { [ok |-> TRUE,  text |-> <<>>],
    [ok |-> TRUE,  text |-> <<"x", "{", "code_diff", "}">>],
    [ok |-> FALSE, text |-> <<"not found">>],
    [ok |-> FALSE, text |-> <<"unreadable">>] }

\* the built-in sample (it holds no brace)
SampleCode == <<"def process_user_input", "x">>

NoArgs == [personas |-> [given |-> FALSE, names |-> <<>>], list_personas |-> FALSE,
           file |-> FALSE, description |-> "", name |-> "Custom Persona",
           focus |-> "Custom review focus"]

NoCode == [set |-> FALSE, ok |-> FALSE, text |-> <<>>]

NoReport == [rendered |-> FALSE, text |-> <<>>]

\* the two hand-authored personas; each template is text, {code_diff}, text
BuiltinPersonas ==
  << [name |-> "Code Quality Specialist",
      focus |-> "Code maintainability and best practices",
      template |-> <<"T1 Code Under Review:", "{", "code_diff", "}", "T1 Required Output Format">>],
     [name |-> "Bug Hunter",
      focus |-> "Potential bugs and edge cases",
      template |-> <<"T2 Code Under Review:", "{", "code_diff", "}", "T2 Required Output Format">>] >>

MetaPrompt(description) == <<"Persona description: ", description>>

-----------------------------------------------------------------------------
(* Pure parts of the engine *)

\* the comprehension of CodeReviewEngine.review_code: registry positions whose
\* lowered name is among the lowered selection, in registry order
RECURSIVE MatchFrom(_, _, _)
MatchFrom(ps, names, i) ==
  IF i > Len(ps) THEN <<>>
  ELSE LET rest == MatchFrom(ps, names, i + 1)
       IN  IF \E k \in 1..Len(names) : Lower(ps[i].name) = Lower(names[k])
           THEN <<i>> \o rest
           ELSE rest

MatchPersonas(ps, names) == MatchFrom(ps, names, 1)

AllPersonas(ps) == [i \in 1..Len(ps) |-> i]

CountStatus(rs, st) == Cardinality({i \in 1..Len(rs) : rs[i].status = st})

\* a block that leaves out the body of a failed review
Block_DropsErrorBody(review) ==
  IF review.status = "success"
  THEN <<"## [robot] ", review.persona, " - ", review.focus>> \o review.review \o <<"---">>
  ELSE <<"## [x] ", review.persona, " - ERROR", "---">>

\* one block of the report
Block(review) ==
  IF review.status = "success"
  THEN <<"## [robot] ", review.persona, " - ", review.focus>> \o review.review \o <<"---">>
  ELSE <<"## [x] ", review.persona, " - ERROR">> \o review.review \o <<"---">>

RECURSIVE Blocks(_)
Blocks(rs) == IF rs = <<>> THEN <<>> ELSE Block(Head(rs)) \o Blocks(Tail(rs))

ReportHeader(rs) ==
  <<"# Multi-Persona Code Review Report", "**Review Summary:**",
    "- Successful reviews: ", ToString(CountStatus(rs, "success")),
    "- Failed reviews: ", ToString(CountStatus(rs, "error")), "---">>

\* CodeReviewEngine.format_reviews
format_reviews(rs) == ReportHeader(rs) \o Blocks(rs)

-----------------------------------------------------------------------------
(* main(), step by step *)

Init ==
  /\ pc = "parse"
  /\ args = NoArgs
  /\ config = "unset"
  /\ personas = <<>>
  /\ code_content = NoCode
  /\ personas_to_run = <<>>
  /\ idx = 1
  /\ reviews = <<>>
  /\ report = NoReport
  /\ out = <<>>
  /\ calls = <<>>
  /\ saved = FALSE
  /\ exc = "none"
  /\ metaFailed = FALSE
  /\ dispatched = FALSE

\* parse_arguments.  --name is read only together with --description, so it is
\* varied only then; --focus keeps its default
ParseArguments ==
  /\ pc = "parse"
  /\ \E sel \in Selections, d \in Descriptions, lp \in BOOLEAN, f \in BOOLEAN :
       \E n \in (IF d = "" THEN {"Custom Persona"} ELSE DynNames) :
         args' = [personas |-> sel, list_personas |-> lp, file |-> f,
                  description |-> d, name |-> n, focus |-> "Custom review focus"]
  /\ pc' = "config"
  /\ UNCHANGED <<config, personas, code_content, personas_to_run, idx, reviews,
                 report, out, calls, saved, exc, metaFailed, dispatched>>

\* load_config and main's test of its result
LoadConfig ==
  /\ pc = "config"
  /\ \E api_key \in ApiKeys :
       IF api_key = ""
       THEN /\ config' = "missing"
            /\ out' = Append(out, [kind |-> "error",
                                   text |-> <<"Error: Please set GOOGLE_API_KEY environment variable">>])
            /\ pc' = "done"
       ELSE /\ config' = "loaded"
            /\ out' = out
            /\ pc' = "engine"
  /\ UNCHANGED <<args, personas, code_content, personas_to_run, idx, reviews,
                 report, calls, saved, exc, metaFailed, dispatched>>

\* setup_api and CodeReviewEngine.__init__
InitEngine ==
  /\ pc = "engine"
  /\ personas' = BuiltinPersonas
  /\ pc' = "dynamic"
  /\ UNCHANGED <<args, config, code_content, personas_to_run, idx, reviews,
                 report, out, calls, saved, exc, metaFailed, dispatched>>

\* a generate_persona_prompt that hands back its error message as the template
GeneratedTemplate_ErrorText(r) ==
  IF r.ok THEN Strip(r.text) ELSE <<"Error generating persona prompt">>

\* generate_persona_prompt's result for an endpoint answer r
GeneratedTemplate(r) == IF r.ok THEN Strip(r.text) ELSE <<>>

\* main's optional append of the persona built from --description
AppendDynamic ==
  /\ pc = "dynamic"
  /\ IF args.description # ""
     THEN \E r \in MetaResponses :
            /\ calls' = Append(calls, [kind |-> "meta", prompt |-> MetaPrompt(args.description)])
            /\ out' = IF r.ok THEN out
                      ELSE Append(out, [kind |-> "error",
                                        text |-> <<"Error generating persona prompt">>])
            /\ metaFailed' = ~r.ok
            /\ personas' = Append(personas, [name |-> args.name, focus |-> args.focus,
                                             template |-> GeneratedTemplate(r)])
     ELSE UNCHANGED <<calls, out, metaFailed, personas>>
  /\ pc' = "list"
  /\ UNCHANGED <<args, config, code_content, personas_to_run, idx, reviews,
                 report, saved, exc, dispatched>>

\* --list-personas
ListPersonas ==
  /\ pc = "list"
  /\ IF args.list_personas
     THEN /\ out' = Append(out, [kind |-> "list",
                                 text |-> [i \in 1..Len(personas) |-> personas[i].name]])
          /\ pc' = "done"
     ELSE /\ out' = out
          /\ pc' = "read"
  /\ UNCHANGED <<args, config, personas, code_content, personas_to_run, idx,
                 reviews, report, calls, saved, exc, metaFailed, dispatched>>

\* a main that goes on with an empty payload when the file could not be read
ReadInput_IgnoresError ==
  /\ pc = "read"
  /\ IF args.file
     THEN \E f \in FileOutcomes :
            /\ code_content' = [set |-> TRUE, ok |-> f.ok, text |-> IF f.ok THEN f.text ELSE <<>>]
            /\ out' = IF f.ok THEN out
                      ELSE Append(out, [kind |-> "error", text |-> <<"Error: File ">> \o f.text])
            /\ pc' = "dispatch"
     ELSE /\ code_content' = [set |-> TRUE, ok |-> TRUE, text |-> SampleCode]
          /\ out' = out
          /\ pc' = "dispatch"
  /\ UNCHANGED <<args, config, personas, personas_to_run, idx, reviews, report,
                 calls, saved, exc, metaFailed, dispatched>>

\* read_file_content, or the sample when no --file is given
ReadInput ==
  /\ pc = "read"
  /\ IF args.file
     THEN \E f \in FileOutcomes :
            IF f.ok
            THEN /\ code_content' = [set |-> TRUE, ok |-> TRUE, text |-> f.text]
                 /\ out' = out
                 /\ pc' = "dispatch"
            ELSE /\ code_content' = [set |-> TRUE, ok |-> FALSE, text |-> <<>>]
                 /\ out' = Append(out, [kind |-> "error", text |-> <<"Error: File ">> \o f.text])
                 /\ pc' = "done"
     ELSE /\ code_content' = [set |-> TRUE, ok |-> TRUE, text |-> SampleCode]
          /\ out' = out
          /\ pc' = "dispatch"
  /\ UNCHANGED <<args, config, personas, personas_to_run, idx, reviews, report,
                 calls, saved, exc, metaFailed, dispatched>>

\* a selection in which an unmatched list runs every persona
Select_AllOnNoMatch ==
  /\ pc = "dispatch"
  /\ reviews' = <<>>
  /\ idx' = 1
  /\ dispatched' = TRUE
  /\ LET run == IF args.personas.given THEN MatchPersonas(personas, args.personas.names)
                ELSE AllPersonas(personas)
     IN  /\ personas_to_run' = IF run = <<>> THEN AllPersonas(personas) ELSE run
         /\ out' = out
         /\ pc' = "loop"
  /\ UNCHANGED <<args, config, personas, code_content, report, calls, saved, exc,
                 metaFailed>>

\* CodeReviewEngine.review_code up to its loop: the personas to run
Select ==
  /\ pc = "dispatch"
  /\ reviews' = <<>>
  /\ idx' = 1
  /\ dispatched' = TRUE
  /\ IF ~args.personas.given
     THEN /\ personas_to_run' = AllPersonas(personas)
          /\ out' = out
          /\ pc' = "loop"
     ELSE LET run == MatchPersonas(personas, args.personas.names)
          IN  /\ personas_to_run' = run
              /\ IF run = <<>>
                 THEN /\ out' = Append(out, [kind |-> "warning",
                                             text |-> <<"Warning: No matching personas found for ">>
                                                        \o args.personas.names])
                      /\ pc' = "collected"
                 ELSE /\ out' = out
                      /\ pc' = "loop"
  /\ UNCHANGED <<args, config, personas, code_content, report, calls, saved, exc,
                 metaFailed>>

\* one round of the loop: CodeReviewPersona.review_code of the next persona.
\* The template is filled in before the try block, so an exception of format
\* leaves review_code, the engine's loop and main; an exception of the endpoint
\* is caught and becomes an error result
PersonaReview ==
  /\ pc = "loop"
  /\ idx <= Len(personas_to_run)
  /\ LET persona == personas[personas_to_run[idx]]
         full_prompt == Format(persona.template, code_content.text)
     IN  IF full_prompt.raised
         THEN /\ exc' = full_prompt.exc
              /\ pc' = "crashed"
              /\ UNCHANGED <<calls, reviews, idx>>
         ELSE \E response \in ReviewResponses :
                /\ calls' = Append(calls, [kind |-> "review", prompt |-> full_prompt.text])
                /\ reviews' = Append(reviews,
                     [persona |-> persona.name, focus |-> persona.focus,
                      review |-> IF response.ok THEN response.text
                                 ELSE <<"Error during review: ">> \o response.text,
                      status |-> IF response.ok THEN "success" ELSE "error"])
                /\ idx' = idx + 1
                /\ pc' = IF idx = Len(personas_to_run) THEN "collected" ELSE "loop"
                /\ exc' = exc
  /\ UNCHANGED <<args, config, personas, code_content, personas_to_run, report,
                 out, saved, metaFailed, dispatched>>

\* main after engine.review_code returned: nothing to report, or the report
\* rendered, printed and written to review_report.txt
MainReport ==
  /\ pc = "collected"
  /\ IF reviews = <<>>
     THEN /\ out' = Append(out, [kind |-> "error", text |-> <<"No reviews generated.">>])
          /\ UNCHANGED <<report, saved>>
     ELSE /\ report' = [rendered |-> TRUE, text |-> format_reviews(reviews)]
          /\ out' = Append(out, [kind |-> "report", text |-> format_reviews(reviews)])
          /\ saved' = TRUE
  /\ pc' = "done"
  /\ UNCHANGED <<args, config, personas, code_content, personas_to_run, idx,
                 reviews, calls, exc, metaFailed, dispatched>>

Next ==
  \/ ParseArguments
  \/ LoadConfig
  \/ InitEngine
  \/ AppendDynamic
  \/ ListPersonas
  \/ ReadInput
  \/ Select
  \/ PersonaReview
  \/ MainReport

Spec == Init /\ [][Next]_vars

-----------------------------------------------------------------------------
(* The dispatch of a generated persona, over every bounded text.            *)
(* InitTexts is the state main is in after ReadInput when it was run with   *)
(* --description, --personas "Custom Persona" and --file, the endpoint      *)
(* answered the meta-prompt with the text t and the file holds the text c.  *)

Payloads == StringsUpTo(MaxCodeLen) \cup {<<"{", "code_diff", "}">>}

InitTexts ==
  /\ pc = "dispatch"
  /\ args = [personas |-> [given |-> TRUE, names |-> <<"Custom Persona">>],
             list_personas |-> FALSE, file |-> TRUE,
             description |-> "focuses on accessibility", name |-> "Custom Persona",
             focus |-> "Custom review focus"]
  /\ config = "loaded"
  /\ \E t \in StringsUpTo(MaxTplLen) :
       personas = Append(BuiltinPersonas,
                         [name |-> "Custom Persona", focus |-> "Custom review focus",
                          template |-> GeneratedTemplate([ok |-> TRUE, text |-> t])])
  /\ \E c \in Payloads : code_content = [set |-> TRUE, ok |-> TRUE, text |-> c]
  /\ personas_to_run = <<>>
  /\ idx = 1
  /\ reviews = <<>>
  /\ report = NoReport
  /\ out = <<>>
  /\ calls = <<[kind |-> "meta", prompt |-> MetaPrompt("focuses on accessibility")]>>
  /\ saved = FALSE
  /\ exc = "none"
  /\ metaFailed = FALSE
  /\ dispatched = FALSE

NextTexts ==
  \/ Select
  \/ PersonaReview
  \/ MainReport

SpecTexts == InitTexts /\ [][NextTexts]_vars

-----------------------------------------------------------------------------
(* Vocabulary of the properties *)

Contains(seq, x) == \E i \in 1..Len(seq) : seq[i] = x

ContainsText(seq, sub) ==
  \E k \in 0..(Len(seq) - Len(sub)) : SubSeq(seq, k + 1, k + Len(sub)) = sub

\* the calls of the review endpoint, in order
ReviewCalls == SelectSeq(calls, LAMBDA c : c.kind = "review")

\* engine.review_code has ended: it returned, or an exception left it
DispatchEnded == dispatched /\ pc \in {"collected", "crashed", "done"}

\* engine.review_code returned its list to main
DispatchReturned == dispatched /\ pc \in {"collected", "done"}

\* registry positions whose name equals a selected name, case ignored
Matched == {i \in 1..Len(personas) :
              \E k \in 1..Len(args.personas.names) :
                 Lower(personas[i].name) = Lower(args.personas.names[k])}

\* the results are those of the registry positions in S, one each, in registry order
OneResultEach(S) ==
  /\ Len(reviews) = Cardinality(S)
  /\ Len(personas_to_run) = Len(reviews)
  /\ \A i \in 1..Len(reviews) :
       /\ personas_to_run[i] \in S
       /\ reviews[i].persona = personas[personas_to_run[i]].name
       /\ reviews[i].focus = personas[personas_to_run[i]].focus
  /\ \A i, j \in 1..Len(reviews) : i < j => personas_to_run[i] < personas_to_run[j]

\* the report after its header, cut after each separator
RECURSIVE SplitBlocks(_, _)
SplitBlocks(t, cur) ==
  IF t = <<>> THEN (IF cur = <<>> THEN <<>> ELSE <<cur>>)
  ELSE IF Head(t) = "---" THEN <<Append(cur, "---")>> \o SplitBlocks(Tail(t), <<>>)
  ELSE SplitBlocks(Tail(t), Append(cur, Head(t)))

ReportBlocks ==
  SplitBlocks(SubSeq(report.text, Len(ReportHeader(<<>>)) + 1, Len(report.text)), <<>>)

\* the two counts of the summary, as printed
SummarySuccess == report.text[4]

SummaryFailed == report.text[6]

-----------------------------------------------------------------------------
(* C1: CodeReviewPersona.review_code never raises: a templating failure and an
   endpoint failure both end in a returned error result, and the engine goes on
   with the next persona. *)
C1_ReviewCodeNeverRaises ==
  /\ exc = "none"
  /\ pc # "crashed"
  /\ \A i \in 1..Len(reviews) :
       Format(personas[personas_to_run[i]].template, code_content.text).raised
         => reviews[i].status = "error"

(* C2: with no selection (None) or an empty selection list, every registered
   persona is dispatched and exactly one result per registered persona is
   returned, in registration order. *)
C2_AllPersonasWithoutSelection ==
  (DispatchEnded /\ (~args.personas.given \/ args.personas.names = <<>>))
    => /\ pc # "crashed"
       /\ OneResultEach(1..Len(personas))

(* C3: for a non-empty selection list that matches at least one registered
   persona (case ignored), review_code returns exactly one result per matched
   persona and none for the others, in registry order, whatever the order and
   the repetitions of the names in the list. *)
C3_OneResultPerMatchedPersona ==
  (DispatchEnded /\ args.personas.given /\ args.personas.names # <<>> /\ Matched # {})
    => /\ pc # "crashed"
       /\ OneResultEach(Matched)

(* C4: if the endpoint call of persona A fails and that of a later persona B
   succeeds in one dispatch, both results are in the returned list and in the
   rendered report, A marked failure and B marked success; the summary counts
   equal the numbers of results of each outcome (1 and 1 for A and B alone) and
   add up to the number of results. *)
C4_FailureIsolation ==
  /\ \A a, b \in 1..Len(reviews) :
       (DispatchEnded /\ a < b /\ reviews[a].status = "error" /\ reviews[b].status = "success")
         => /\ pc # "crashed"
            /\ pc = "done" =>
                 /\ report.rendered
                 /\ Len(ReportBlocks) = Len(reviews)
                 /\ ReportBlocks[a][1] = "## [x] " /\ ReportBlocks[a][2] = reviews[a].persona
                 /\ ReportBlocks[b][1] = "## [robot] " /\ ReportBlocks[b][2] = reviews[b].persona
                 /\ Len(reviews) = 2 => (SummarySuccess = "1" /\ SummaryFailed = "1")
  /\ report.rendered =>
       /\ SummarySuccess = ToString(Cardinality({i \in 1..Len(reviews) : reviews[i].status = "success"}))
       /\ SummaryFailed = ToString(Cardinality({i \in 1..Len(reviews) : reviews[i].status = "error"}))
       /\ \A i \in 1..Len(reviews) : reviews[i].status \in {"success", "error"}

(* C5: for a non-empty selection list none of whose names matches a registered
   persona, review_code returns an empty list, prints a warning that names the
   requested selection, raises nothing and calls no persona's endpoint. *)
C5_NoMatchWarnsAndReturnsEmpty ==
  (dispatched /\ args.personas.given /\ args.personas.names # <<>> /\ Matched = {})
    => /\ reviews = <<>>
       /\ pc \in {"collected", "done"}
       /\ exc = "none"
       /\ ReviewCalls = <<>>
       /\ \E e \in 1..Len(out) :
            /\ out[e].kind = "warning"
            /\ ContainsText(out[e].text, args.personas.names)

C5_Witness ==
  /\ pc = "done"
  /\ dispatched
  /\ args.personas.given
  /\ args.personas.names = <<"nonexistent", "nonexistent">>
  /\ Len(personas) = 3

(* C6 as stated: the report holds, for each result in input order, one block
   with the result's persona name, its focus and its body, followed by a
   separator, a failure block having the shape of a success block. *)
C6_EveryBlockHasNameFocusBody ==
  report.rendered =>
    /\ Len(ReportBlocks) = Len(reviews)
    /\ \A i \in 1..Len(reviews) :
         /\ Contains(ReportBlocks[i], reviews[i].persona)
         /\ Contains(ReportBlocks[i], reviews[i].focus)
         /\ ContainsText(ReportBlocks[i], reviews[i].review)
         /\ ReportBlocks[i][Len(ReportBlocks[i])] = "---"

(* C6 amended: the report holds, for each result in input order, one block with
   the result's persona name and its body, followed by a separator; a success
   block also holds the focus, a failure block holds the word ERROR in the place
   of the focus (and not the focus) under a different heading marker. *)
C6_BlocksByOutcome ==
  report.rendered =>
    /\ Len(ReportBlocks) = Len(reviews)
    /\ \A i \in 1..Len(reviews) :
         LET b == ReportBlocks[i]
         IN  /\ b[2] = reviews[i].persona
             /\ ContainsText(b, reviews[i].review)
             /\ b[Len(b)] = "---"
             /\ reviews[i].status = "success" =>
                  /\ b[1] = "## [robot] "
                  /\ b = <<b[1], reviews[i].persona, " - ", reviews[i].focus>>
                           \o reviews[i].review \o <<"---">>
             /\ reviews[i].status # "success" =>
                  /\ b[1] = "## [x] "
                  /\ ~Contains(b, reviews[i].focus)
                  /\ b = <<b[1], reviews[i].persona, " - ERROR">>
                           \o reviews[i].review \o <<"---">>

C6_Witness ==
  /\ report.rendered
  /\ Len(reviews) = 3
  /\ reviews[1].status = "error"
  /\ reviews[2].status = "success"
  /\ reviews[3].status = "error"

\* the braces of t are those of one {code_diff} placeholder and no others
SinglePlaceholder(t) ==
  /\ Cardinality({i \in 1..Len(t) : t[i] = "{"}) = 1
  /\ Cardinality({i \in 1..Len(t) : t[i] = "}"}) = 1
  /\ \E k \in 1..(Len(t) - 2) : SubSeq(t, k, k + 2) = <<"{", "code_diff", "}">>

\* t with its placeholder replaced by the text c
ReplacePlaceholder(t, c) ==
  LET k == CHOOSE i \in 1..Len(t) : t[i] = "{"
  IN  SubSeq(t, 1, k - 1) \o c \o SubSeq(t, k + 3, Len(t))

(* C7: for a persona whose template holds the single placeholder {code_diff},
   the prompt review_code sends to the endpoint is the template with the
   placeholder replaced by the code payload as it is, whatever the payload,
   braces and the text {code_diff} in it included. *)
C7_PayloadSubstitutedVerbatim ==
  /\ Len(ReviewCalls) = Len(reviews)
  /\ \A i \in 1..Len(reviews) :
       LET t == personas[personas_to_run[i]].template
       IN  SinglePlaceholder(t) =>
             ReviewCalls[i].prompt = ReplacePlaceholder(t, code_content.text)
  /\ (pc = "crashed") => ~SinglePlaceholder(personas[personas_to_run[idx]].template)

C7_Witness ==
  /\ pc = "done"
  /\ Len(reviews) = 1
  /\ personas[personas_to_run[1]].template = <<"x", "{", "code_diff", "}">>
  /\ code_content.text = <<"{", "code_diff", "}">>
  /\ ReviewCalls[1].prompt = <<"x", "{", "code_diff", "}">>

(* C8: in main a missing API key or a file that cannot be read ends the run
   before any dispatch: engine.review_code is not called, no persona's review
   endpoint is called, no report is rendered or written, and a diagnostic is
   printed. *)
C8_ErrorsEndRunBeforeDispatch ==
  (config = "missing" \/ (code_content.set /\ ~code_content.ok))
    => /\ pc = "done"
       /\ ~dispatched
       /\ ReviewCalls = <<>>
       /\ reviews = <<>>
       /\ ~report.rendered
       /\ ~saved
       /\ \A e \in 1..Len(out) : out[e].kind # "report"
       /\ out # <<>> /\ out[Len(out)].kind = "error"

C8_Witness ==
  /\ pc = "done"
  /\ config = "loaded"
  /\ code_content.set
  /\ ~code_content.ok
  /\ Len(personas) = 3

(* C9: when the meta-prompt call fails, construction does not fail: the persona
   gets the empty template and is appended to the registry, and a later dispatch
   of it yields exactly one result, the endpoint being called with an empty
   prompt. *)
C9_FailedMetaPromptGivesEmptyTemplate ==
  metaFailed =>
    /\ Len(personas) = Len(BuiltinPersonas) + 1
    /\ personas[Len(personas)] = [name |-> args.name, focus |-> args.focus, template |-> <<>>]
    /\ exc = "none"
    /\ pc # "crashed"
    /\ (DispatchReturned /\ Contains(personas_to_run, Len(personas))) =>
         /\ Len(reviews) = Len(personas_to_run)
         /\ Len(ReviewCalls) = Len(reviews)
         /\ Cardinality({i \in 1..Len(reviews) : personas_to_run[i] = Len(personas)}) = 1
         /\ \A i \in 1..Len(reviews) :
              personas_to_run[i] = Len(personas) =>
                /\ reviews[i].persona = args.name
                /\ ReviewCalls[i].prompt = <<>>

C9_Witness ==
  /\ metaFailed
  /\ pc = "done"
  /\ report.rendered
  /\ personas_to_run = <<3>>
  /\ reviews[1].status = "success"

(* C10: in every state of the registry no two personas have names that are
   equal when case is ignored, so a selection by one name matches at most one
   persona. *)
C10_NamesUniqueIgnoringCase ==
  /\ \A i, j \in 1..Len(personas) :
       i # j => Lower(personas[i].name) # Lower(personas[j].name)
  /\ (dispatched /\ args.personas.given /\ Len(args.personas.names) = 1)
       => Len(personas_to_run) <= 1

====
